---- MODULE Spec2Model ----
(***************************************************************************)
(* Model of the three-agent repository pipeline:                           *)
(*   agents/repo_analyzer.py   RepoAnalyzerAgent (clone, load, split,      *)
(*                             cleanup, retriever)                         *)
(*   agents/content_improver.py ContentImproverAgent (structured LLM call) *)
(*   app.py                    AgentState, the three graph nodes, the      *)
(*                             sequential graph and main's try/except      *)
(*                                                                         *)
(* Text is a sequence of one-character strings.  The text splitter is the  *)
(* RecursiveCharacterTextSplitter configured in RepoAnalyzerAgent.__init__ *)
(* (keep_separator and strip_whitespace at their defaults, True); its      *)
(* chunk_size/chunk_overlap of 1000/200 are scaled down to ChunkSize /     *)
(* ChunkOverlap so that texts longer than a chunk are enumerable.          *)
(***************************************************************************)
EXTENDS Integers, Sequences, FiniteSets, TLC

\* ------------------------------------------------------------------ bounds
\* chunk_size=1000 and chunk_overlap=200 (repo_analyzer.py:18-19), scaled.
ChunkSize == 3
ChunkOverlap == 1
\* Longest document text enumerated for the splitter.
MaxTextLen == 6
\* Longest readme_edits list the language model is taken to return.
MaxEdits == 6

\* ------------------------------------------------------------- text helpers
NL == "\n"
SP == " "
Alphabet == {"a", SP, NL}

\* separators=["\n\n", "\n", " ", ""]   (repo_analyzer.py:20)
Separators == << <<NL, NL>>, <<NL>>, <<SP>>, <<>> >>

Drop(s, n) == SubSeq(s, n + 1, Len(s))

OccursAt(sep, t, i) ==
    /\ i + Len(sep) - 1 <= Len(t)
    /\ SubSeq(t, i, i + Len(sep) - 1) = sep

\* re.search(separator, text)
Contains(sep, t) == \E i \in 1..Len(t) : OccursAt(sep, t, i)

FirstOccurrence(sep, t) ==
    CHOOSE i \in 1..Len(t) :
        OccursAt(sep, t, i) /\ \A j \in 1..(i - 1) : ~OccursAt(sep, t, j)

\* re.split(sep, text): the pieces between leftmost non-overlapping matches.
RECURSIVE Pieces(_, _)
Pieces(t, sep) ==
    IF ~Contains(sep, t) THEN << t >>
    ELSE LET i == FirstOccurrence(sep, t)
         IN  << SubSeq(t, 1, i - 1) >> \o Pieces(Drop(t, i + Len(sep) - 1), sep)

\* separator.join(parts)
RECURSIVE Join(_, _)
Join(parts, sep) ==
    IF parts = << >> THEN << >>
    ELSE IF Len(parts) = 1 THEN parts[1]
    ELSE parts[1] \o sep \o Join(Tail(parts), sep)

IsSpace(c) == c \in {SP, NL}

RECURSIVE LStrip(_)
LStrip(t) == IF t # << >> /\ IsSpace(Head(t)) THEN LStrip(Tail(t)) ELSE t

RECURSIVE RStrip(_)
RStrip(t) ==
    IF t # << >> /\ IsSpace(t[Len(t)]) THEN RStrip(SubSeq(t, 1, Len(t) - 1)) ELSE t

\* str.strip()
Strip(t) == RStrip(LStrip(t))

\* ------------------------------------------- RecursiveCharacterTextSplitter
\* _split_text_with_regex(text, separator, keep_separator=True): each
\* separator is kept at the start of the piece that follows it; empty
\* pieces are dropped.  The "" separator splits into characters.
split_text_with_regex(text, sep) ==
    IF sep = << >>
    THEN [i \in 1..Len(text) |-> << text[i] >>]
    ELSE LET p == Pieces(text, sep)
             withSep == [i \in 1..Len(p) |-> IF i = 1 THEN p[1] ELSE sep \o p[i]]
         IN  SelectSeq(withSep, LAMBDA s : s # << >>)

\* _join_docs: join, strip; an empty result is dropped (None).
join_docs(current_doc, separator) ==
    LET text == Strip(Join(current_doc, separator))
    IN  IF text = << >> THEN << >> ELSE << text >>

SepLen(separator, n, least) == IF n > least THEN Len(separator) ELSE 0

\* The inner while loop of _merge_splits: pop from the front of current_doc
\* until the overlap is small enough and the next split fits.
RECURSIVE PopFront(_, _, _, _)
PopFront(current_doc, total, len, separator) ==
    IF \/ total > ChunkOverlap
       \/ /\ total + len + SepLen(separator, Len(current_doc), 0) > ChunkSize
          /\ total > 0
    THEN PopFront(Tail(current_doc),
                  total - (Len(current_doc[1]) + SepLen(separator, Len(current_doc), 1)),
                  len, separator)
    ELSE [doc |-> current_doc, total |-> total]

\* _merge_splits(splits, separator), as a loop over the splits.
RECURSIVE MergeLoop(_, _, _, _, _)
MergeLoop(splits, separator, docs, current_doc, total) ==
    IF splits = << >> THEN docs \o join_docs(current_doc, separator)
    ELSE LET d == Head(splits)
             len == Len(d)
             over == total + len + SepLen(separator, Len(current_doc), 0) > ChunkSize
             emit == over /\ Len(current_doc) > 0
             docs1 == IF emit THEN docs \o join_docs(current_doc, separator) ELSE docs
             popped == IF emit THEN PopFront(current_doc, total, len, separator)
                       ELSE [doc |-> current_doc, total |-> total]
             doc2 == Append(popped.doc, d)
             total2 == popped.total + len + SepLen(separator, Len(doc2), 1)
         IN  MergeLoop(Tail(splits), separator, docs1, doc2, total2)

merge_splits(splits, separator) == MergeLoop(splits, separator, << >>, << >>, 0)

\* Mutant: every piece counts as small enough, none is split further.
IsGoodSplitAlways(s) == TRUE

\* `if self._length_function(s) < self._chunk_size`
IsGoodSplit(s) == Len(s) < ChunkSize

\* The separator _split_text picks: the first one that occurs in the text
\* ("" always does), with the separators after it left for recursion.
RECURSIVE PickSeparator(_, _)
PickSeparator(text, separators) ==
    IF Len(separators) = 1
    THEN [separator |-> separators[1], new_separators |-> << >>]
    ELSE IF Head(separators) = << >>
    THEN [separator |-> << >>, new_separators |-> << >>]
    ELSE IF Contains(Head(separators), text)
    THEN [separator |-> Head(separators), new_separators |-> Tail(separators)]
    ELSE PickSeparator(text, Tail(separators))

\* _split_text(text, separators).  keep_separator=True, so the pieces are
\* merged with the empty separator.
RECURSIVE _split_text(_, _)
RECURSIVE SplitLoop(_, _, _, _)
SplitLoop(splits, new_separators, final_chunks, good_splits) ==
    IF splits = << >>
    THEN IF good_splits # << >>
         THEN final_chunks \o merge_splits(good_splits, << >>)
         ELSE final_chunks
    ELSE LET s == Head(splits)
         IN  IF IsGoodSplit(s)
             THEN SplitLoop(Tail(splits), new_separators, final_chunks,
                            Append(good_splits, s))
             ELSE LET flushed == IF good_splits # << >>
                                 THEN final_chunks \o merge_splits(good_splits, << >>)
                                 ELSE final_chunks
                      deeper == IF new_separators = << >> THEN << s >>
                                ELSE _split_text(s, new_separators)
                  IN  SplitLoop(Tail(splits), new_separators, flushed \o deeper, << >>)

_split_text(text, separators) ==
    LET pick == PickSeparator(text, separators)
    IN  SplitLoop(split_text_with_regex(text, pick.separator),
                  pick.new_separators, << >>, << >>)

\* split_documents(docs): the chunks of each document, in document order.
RECURSIVE split_documents(_)
split_documents(docs) ==
    IF docs = << >> THEN << >>
    ELSE _split_text(Head(docs), Separators) \o split_documents(Tail(docs))

\* ------------------------------------------------------------------ state
VARIABLES
    pc,           \* control point of the run
    state,        \* AgentState: the keys present and their values
    next,         \* the graph node the compiled graph runs next
    running,      \* the nodes whose function is executing
    started,      \* history: the nodes started, in order
    completed,    \* history: the nodes that returned an update
    writeLog,     \* history: the <<writer, field>> pairs merged into state
    failures,     \* history: [stage, cause] for every piece of stage work that failed
    calls,        \* history: the external calls made, in order
    exc,          \* the exception propagating, "none" when there is none
    result,       \* what the caller of app.invoke ends with
    files,        \* the allow-listed files of the clone
    working_dir,  \* RepoAnalyzerAgent.working_dir
    temp_dir,     \* process_repo's local temp_dir
    dirExists,    \* whether the mkdtemp directory is on disk
    loadFailed,   \* history: files whose TextLoader.load raised
    docs,         \* the documents loaded by _load_and_split_files
    chunks        \* the chunks process_repo computed

vars == << pc, state, next, running, started, completed, writeLog, failures,
           calls, exc, result, files, working_dir, temp_dir, dirExists,
           loadFailed, docs, chunks >>

analyzerVars == << files, working_dir, temp_dir, dirExists, loadFailed, docs, chunks >>

graphVars == << state, next, running, started, completed, writeLog, failures, result >>

\* ------------------------------------------------------- AgentState, graph
Fields == {"repo_url", "original_content", "chunks", "retriever", "metadata",
           "improved_content"}

StageOrder == << "analyze_repo", "recommend_metadata", "improve_content" >>

Stages == { StageOrder[i] : i \in 1..Len(StageOrder) }

EmptyState == [f \in {} |-> TRUE]

\* The graph merges a node's returned dict into the state, key by key.
Merge(st, update) == update @@ st

\* Mutant: analyze_repo is wired straight to improve_content.
SuccessorSkipping(n) ==
    CASE n = "START" -> "analyze_repo"
      [] n = "analyze_repo" -> "improve_content"
      [] n = "recommend_metadata" -> "improve_content"
      [] OTHER -> "END"

\* create_graph: the add_edge calls.
Successor(n) ==
    CASE n = "START" -> "analyze_repo"
      [] n = "analyze_repo" -> "recommend_metadata"
      [] n = "recommend_metadata" -> "improve_content"
      [] OTHER -> "END"

\* The keys each node function subscripts: state['...'] raises KeyError
\* when the key is absent.
Reads(n) ==
    CASE n = "analyze_repo" -> {"repo_url"}
      [] n = "recommend_metadata" -> {"original_content"}
      [] n = "improve_content" -> {"original_content", "metadata", "retriever"}

EntryPc(n) ==
    CASE n = "analyze_repo" -> "clone"
      [] n = "recommend_metadata" -> "meta"
      [] n = "improve_content" -> "improve"

Count(log, what) == Cardinality({ i \in 1..Len(log) : log[i] = what })

InSeq(x, s) == \E i \in 1..Len(s) : s[i] = x

\* ------------------------------------------------------- RepoAnalyzerAgent
TempDir == "repo_clone_"

\* file_paths = ["README.md", "main.py", "requirements.txt"]
file_paths == << "README.md", "main.py", "requirements.txt" >>

FileSet == { file_paths[i] : i \in 1..Len(file_paths) }

\* The texts a file of the clone may hold: empty, blank, two chunks' worth.
DocTexts == { << >>, << SP >>, << "a", "a", SP, "a", "a" >> }

Absent == [exists |-> FALSE, readable |-> FALSE, text |-> << >>]

Unreadable == [exists |-> TRUE, readable |-> FALSE, text |-> << >>]

FileStatus ==
    { Absent, Unreadable } \cup
    { [exists |-> TRUE, readable |-> TRUE, text |-> t] : t \in DocTexts }

\* The loop of _load_and_split_files: a file that exists is loaded; a load
\* that raises is printed and skipped.
RECURSIVE LoadDocs(_, _)
LoadDocs(paths, fs) ==
    IF paths = << >> THEN << >>
    ELSE LET f == fs[Head(paths)]
         IN  (IF f.exists /\ f.readable THEN << f.text >> ELSE << >>)
             \o LoadDocs(Tail(paths), fs)

LoadErrors(fs) == { p \in FileSet : fs[p].exists /\ ~fs[p].readable }

\* process_repo lines 70-73: whether the directory is on disk afterwards.
\* os.path.exists("") is False; rmtree is taken to remove the tree.
ReturnCleanup(temp, exists) == IF temp # "" /\ exists THEN FALSE ELSE exists

\* process_repo lines 79-80, the same test and removal in the except block.
ExceptCleanup(temp, exists) == IF temp # "" /\ exists THEN FALSE ELSE exists

\* Mutant: a failed embedding load is swallowed and None is returned.
create_retriever_swallowing(chs, embOk) == [raised |-> FALSE, retriever |-> "None"]

\* create_retriever: any failure of the embedding model or of FAISS is
\* re-raised as RuntimeError.
create_retriever(chs, embOk) ==
    IF embOk THEN [raised |-> FALSE, retriever |-> "retriever"]
    ELSE [raised |-> TRUE, retriever |-> "None"]

\* Mutant: the empty-chunks guard is gone.
ChunksAccepted(chs) == FALSE

\* analyze_repo_node line 39: `if not chunks`.
ChunksRejected(chs) == chs = << >>

\* ------------------------------------------------- MetadataRecommenderAgent
\* suggest_metadata(original_content): a metadata mapping, or a failure.
suggest_metadata(original_content, ok) ==
    IF ok THEN [raised |-> FALSE, metadata |-> "metadata"]
    ELSE [raised |-> TRUE, metadata |-> "none"]

\* Mutant: the node catches the agent's failure and returns empty metadata.
recommend_metadata_node_swallowing(st, ok) ==
    [raised |-> FALSE, failed |-> ~ok, update |-> [metadata |-> "metadata"]]

\* recommend_metadata_node: no try/except, so a failure of the agent
\* propagates; otherwise the update is {"metadata": metadata}.
recommend_metadata_node(st, ok) ==
    LET r == suggest_metadata(st.original_content, ok)
    IN  [raised |-> r.raised, failed |-> r.raised, update |-> [metadata |-> r.metadata]]

\* ----------------------------------------------------- ContentImproverAgent
SuggestionFields == {"new_title", "short_summary", "readme_edits"}

Titles == {"", "T"}

EditLists == UNION { [1..n -> {"edit"}] : n \in 0..MaxEdits }

\* What the structured call can end with: a transport/API error, or a raw
\* response in which some fields may be missing or of the wrong type.
LLMOutcomes ==
    { [kind |-> "api_error", invalid |-> {}, new_title |-> "", readme_edits |-> << >>] }
    \cup { [kind |-> "response", invalid |-> m, new_title |-> "", readme_edits |-> << >>]
           : m \in (SUBSET SuggestionFields) \ { {} } }
    \cup { [kind |-> "response", invalid |-> {}, new_title |-> t, readme_edits |-> e]
           : t \in Titles, e \in EditLists }

\* ContentSuggestions: three required fields, typed str, str, list[str];
\* the Field descriptions carry no constraint.  The fields that fail.
ContentSuggestionsErrors(raw) == raw.invalid

\* generate_improved_content lines 55-71.
generate_improved_content(llm) ==
    IF llm.kind = "api_error"
    THEN [error |-> "Failed to connect to OpenRouter or receive response.",
          details |-> {"api"}]
    ELSE IF ContentSuggestionsErrors(llm) # {}
    THEN [error |-> "LLM output validation failed.",
          details |-> ContentSuggestionsErrors(llm)]
    ELSE [new_title |-> llm.new_title, short_summary |-> "S",
          readme_edits |-> llm.readme_edits]

IsErrorDict(d) == "error" \in DOMAIN d

\* Mutant: the node also returns the metadata key, with a new value.
improve_content_node_rewriting(st, llm) ==
    [improved_content |-> generate_improved_content(llm), metadata |-> "rewritten"]

\* improve_content_node: the update is {"improved_content": improved_content}.
improve_content_node(st, llm) ==
    [improved_content |-> generate_improved_content(llm)]

\* ------------------------------------------------------------------- Init
Init ==
    /\ pc = "main"
    /\ state = EmptyState
    /\ next = "START"
    /\ running = {}
    /\ started = << >>
    /\ completed = {}
    /\ writeLog = {}
    /\ failures = {}
    /\ calls = << >>
    /\ exc = "none"
    /\ result = "pending"
    /\ files = [p \in FileSet |-> Absent]
    /\ working_dir = ""
    /\ temp_dir = ""
    /\ dirExists = FALSE
    /\ loadFailed = {}
    /\ docs = << >>
    /\ chunks = << >>

RepoUrls == {"https://github.com/o/r", "not-a-repo"}

IsGithubUrl(url) == url = "https://github.com/o/r"

\* ---------------------------------------------------------------- actions
\* main, lines 130-133: an empty or non-GitHub URL is refused.
MainReject ==
    /\ pc = "main"
    /\ \E url \in RepoUrls :
        /\ ~IsGithubUrl(url)
        /\ result' = "invalid_url"
        /\ pc' = "done"
    /\ UNCHANGED << state, next, running, started, completed, writeLog, failures,
                    calls, exc >>
    /\ UNCHANGED analyzerVars

\* main, lines 142-152: app.invoke({"repo_url": repo_url}).
MainInvoke ==
    /\ pc = "main"
    /\ \E url \in RepoUrls :
        /\ IsGithubUrl(url)
        /\ state' = [repo_url |-> url]
        /\ writeLog' = writeLog \cup { << "input", "repo_url" >> }
    /\ next' = Successor("START")
    /\ pc' = "sched"
    /\ UNCHANGED << running, started, completed, failures, calls, exc, result >>
    /\ UNCHANGED analyzerVars

\* The compiled graph calls the next node's function.
StartStage ==
    /\ pc = "sched"
    /\ next # "END"
    /\ running' = running \cup { next }
    /\ started' = Append(started, next)
    /\ IF Reads(next) \subseteq DOMAIN state
       THEN /\ pc' = EntryPc(next)
            /\ UNCHANGED << failures, exc >>
       ELSE /\ pc' = "raised"
            /\ exc' = "KeyError"
            /\ failures' = failures \cup { [stage |-> next, cause |-> "key"] }
    /\ UNCHANGED << state, next, completed, writeLog, calls, result >>
    /\ UNCHANGED analyzerVars

\* A node returned: its update is merged and the edge out of it is followed.
NodeReturns(n, update) ==
    /\ state' = Merge(state, update)
    /\ writeLog' = writeLog \cup { << n, f >> : f \in DOMAIN update }
    /\ completed' = completed \cup { n }
    /\ running' = running \ { n }
    /\ next' = Successor(n)
    /\ pc' = "sched"
    /\ UNCHANGED << started, result >>

\* A node raised: the exception leaves app.invoke.
NodeRaises(n, e, cause) ==
    /\ exc' = e
    /\ failures' = failures \cup { [stage |-> n, cause |-> cause] }
    /\ running' = running \ { n }
    /\ pc' = "raised"
    /\ UNCHANGED << state, next, started, completed, writeLog, result >>

\* _clone_repo, then process_repo lines 65-66.  mkdtemp may fail before the
\* directory exists; clone_from may fail after it does, and then the
\* RuntimeError leaves _clone_repo before temp_dir is assigned.
CloneRepo ==
    /\ pc = "clone"
    /\ \/ /\ calls' = Append(calls, "mkdtemp_failed")
          /\ exc' = "OSError"
          /\ pc' = "pr_except"
          /\ UNCHANGED << working_dir, temp_dir, dirExists, files >>
       \/ /\ calls' = calls \o << "mkdtemp", "clone_failed" >>
          /\ working_dir' = TempDir
          /\ dirExists' = TRUE
          /\ exc' = "RuntimeError"
          /\ pc' = "pr_except"
          /\ UNCHANGED << temp_dir, files >>
       \/ /\ calls' = calls \o << "mkdtemp", "clone" >>
          /\ working_dir' = TempDir
          /\ dirExists' = TRUE
          /\ files' \in [FileSet -> FileStatus]
          /\ temp_dir' = TempDir
          /\ pc' = "load"
          /\ UNCHANGED exc
    /\ UNCHANGED << loadFailed, docs, chunks >>
    /\ UNCHANGED graphVars

\* _load_and_split_files: load what exists and can be read, split it.  A
\* failure of split_documents is not caught here.
LoadAndSplitFiles ==
    /\ pc = "load"
    /\ docs' = LoadDocs(file_paths, files)
    /\ loadFailed' = LoadErrors(files)
    /\ \/ /\ chunks' = split_documents(docs')
          /\ calls' = Append(calls, "split_documents")
          /\ pc' = "pr_return"
          /\ UNCHANGED exc
       \/ /\ calls' = Append(calls, "split_failed")
          /\ exc' = "Exception"
          /\ pc' = "pr_except"
          /\ UNCHANGED chunks
    /\ UNCHANGED << files, working_dir, temp_dir, dirExists >>
    /\ UNCHANGED graphVars

\* process_repo lines 69-75: clean up, return chunks.
ProcessRepoReturn ==
    /\ pc = "pr_return"
    /\ dirExists' = ReturnCleanup(temp_dir, dirExists)
    /\ calls' = IF dirExists /\ ~dirExists' THEN Append(calls, "rmtree") ELSE calls
    /\ pc' = "node1_after"
    /\ UNCHANGED << files, working_dir, temp_dir, loadFailed, docs, chunks, exc >>
    /\ UNCHANGED graphVars

\* process_repo lines 76-81: clean up if temp_dir exists, re-raise.
ProcessRepoExcept ==
    /\ pc = "pr_except"
    /\ dirExists' = ExceptCleanup(temp_dir, dirExists)
    /\ calls' = IF dirExists /\ ~dirExists' THEN Append(calls, "rmtree") ELSE calls
    /\ pc' = "node1_catch"
    /\ UNCHANGED << files, working_dir, temp_dir, loadFailed, docs, chunks, exc >>
    /\ UNCHANGED graphVars

FailureCause(log) ==
    IF InSeq("mkdtemp_failed", log) THEN "mkdtemp"
    ELSE IF InSeq("clone_failed", log) THEN "clone"
    ELSE "split"

\* analyze_repo_node lines 35-37: any exception of process_repo becomes
\* ValueError("RepoAnalyzer failed.").
AnalyzeRepoCatch ==
    /\ pc = "node1_catch"
    /\ NodeRaises("analyze_repo", "ValueError", FailureCause(calls))
    /\ UNCHANGED calls
    /\ UNCHANGED analyzerVars

\* analyze_repo_node lines 39-51: refuse an empty chunk list, build the
\* retriever, return original_content, chunks and retriever.
AnalyzeRepoFinish ==
    /\ pc = "node1_after"
    /\ IF ChunksRejected(chunks)
       THEN /\ NodeRaises("analyze_repo", "ValueError", "no_chunks")
            /\ UNCHANGED calls
       ELSE \E embOk \in BOOLEAN :
              LET r == create_retriever(chunks, embOk)
              IN  /\ calls' = Append(calls, "create_retriever")
                  /\ IF r.raised
                     THEN NodeRaises("analyze_repo", "RuntimeError", "embedding")
                     ELSE /\ NodeReturns("analyze_repo",
                                 [original_content |-> Join(chunks, << NL, NL >>),
                                  chunks |-> chunks,
                                  retriever |-> r.retriever])
                          /\ failures' = IF embOk THEN failures
                                         ELSE failures \cup
                                              { [stage |-> "analyze_repo",
                                                 cause |-> "embedding"] }
                          /\ UNCHANGED exc
    /\ UNCHANGED analyzerVars

\* recommend_metadata_node.
RecommendMetadataNode ==
    /\ pc = "meta"
    /\ \E ok \in BOOLEAN :
         LET r == recommend_metadata_node(state, ok)
         IN  /\ calls' = Append(calls, "suggest_metadata")
             /\ IF r.raised
                THEN NodeRaises("recommend_metadata", "Exception", "metadata")
                ELSE /\ NodeReturns("recommend_metadata", r.update)
                     /\ failures' = IF r.failed
                                    THEN failures \cup
                                         { [stage |-> "recommend_metadata",
                                            cause |-> "metadata"] }
                                    ELSE failures
                     /\ UNCHANGED exc
    /\ UNCHANGED analyzerVars

LLMCause(llm) ==
    IF llm.kind = "api_error" THEN "llm_api" ELSE "llm_validation"

\* improve_content_node.  retriever.invoke (content_improver.py:29) is
\* outside the try block, so its failure propagates; a failure of the
\* structured call is returned as a dict and the node returns normally.
ImproveContentNode ==
    /\ pc = "improve"
    /\ \/ /\ calls' = Append(calls, "retrieve_failed")
          /\ NodeRaises("improve_content", "Exception", "retrieve")
       \/ \E llm \in LLMOutcomes :
            LET update == improve_content_node(state, llm)
            IN  /\ calls' = calls \o << "retrieve", "llm" >>
                /\ NodeReturns("improve_content", update)
                /\ failures' = IF IsErrorDict(update.improved_content)
                               THEN failures \cup
                                    { [stage |-> "improve_content",
                                       cause |-> LLMCause(llm)] }
                               ELSE failures
                /\ UNCHANGED exc
    /\ UNCHANGED analyzerVars

\* The graph reached END: app.invoke returns the final state (main 152-154).
InvokeReturns ==
    /\ pc = "sched"
    /\ next = "END"
    /\ result' = "final_state"
    /\ pc' = "done"
    /\ UNCHANGED << state, next, running, started, completed, writeLog, failures,
                    calls, exc >>
    /\ UNCHANGED analyzerVars

\* main lines 186-191: ValueError, or any other exception.
MainCatch ==
    /\ pc = "raised"
    /\ result' = IF exc = "ValueError" THEN "workflow_failed" ELSE "unexpected_error"
    /\ pc' = "done"
    /\ UNCHANGED << state, next, running, started, completed, writeLog, failures,
                    calls, exc >>
    /\ UNCHANGED analyzerVars

Next ==
    \/ MainReject
    \/ MainInvoke
    \/ StartStage
    \/ CloneRepo
    \/ LoadAndSplitFiles
    \/ ProcessRepoReturn
    \/ ProcessRepoExcept
    \/ AnalyzeRepoCatch
    \/ AnalyzeRepoFinish
    \/ RecommendMetadataNode
    \/ ImproveContentNode
    \/ InvokeReturns
    \/ MainCatch

Spec == Init /\ [][Next]_vars

\* ------------------------------------------------- the splitter on its own
RECURSIVE TextsOfLen(_)
TextsOfLen(n) ==
    IF n = 0 THEN { << >> }
    ELSE { Append(t, c) : t \in TextsOfLen(n - 1), c \in Alphabet }

AllTexts == UNION { TextsOfLen(n) : n \in 0..MaxTextLen }

\* One document of any text up to MaxTextLen has been loaded.
InitSplit ==
    /\ pc = "split"
    /\ docs \in { << t >> : t \in AllTexts }
    /\ chunks = << >>
    /\ state = EmptyState
    /\ next = "START"
    /\ running = {}
    /\ started = << >>
    /\ completed = {}
    /\ writeLog = {}
    /\ failures = {}
    /\ calls = << >>
    /\ exc = "none"
    /\ result = "pending"
    /\ files = [p \in FileSet |-> Absent]
    /\ working_dir = ""
    /\ temp_dir = ""
    /\ dirExists = FALSE
    /\ loadFailed = {}

\* _load_and_split_files line 56 alone.
SplitDocuments ==
    /\ pc = "split"
    /\ chunks' = split_documents(docs)
    /\ pc' = "split_done"
    /\ UNCHANGED << state, next, running, started, completed, writeLog, failures,
                    calls, exc, result, files, working_dir, temp_dir, dirExists,
                    loadFailed, docs >>

NextSplit == SplitDocuments

SpecSplit == InitSplit /\ [][NextSplit]_vars

\* ----------------------------------------------------------------- claims
StageFailed(n) == \E f \in failures : f.stage = n

CauseRecorded(c) == \E f \in failures : f.cause = c

ProcessRepoLeft == pc \in {"node1_after", "node1_catch"}

FailureAtCaller == pc \in {"raised", "done"}

\* C1: whenever process_repo has returned or raised to its caller, the
\* directory mkdtemp created is gone, and it was removed exactly once.
C1_CleanupOnEveryExit ==
    ProcessRepoLeft =>
        /\ ~dirExists
        /\ Count(calls, "rmtree") = Count(calls, "mkdtemp")

C3_EveryStageFailureAborts ==
    \A n \in Stages :
        StageFailed(n) =>
            /\ result # "final_state"
            /\ pc = "done" => result \in {"workflow_failed", "unexpected_error"}
            /\ Count(started, n) = 1
            /\ started[Len(started)] = n

\* C4: a structured response with an empty title, or with fewer than 3 or
\* more than 5 edits, is never returned as a suggestion record: what
\* generate_improved_content returns for it is an {error, details} value.
C4_BadShapeIsValidationError ==
    ("improved_content" \in DOMAIN state /\ ~IsErrorDict(state.improved_content)) =>
        /\ state.improved_content.new_title # ""
        /\ Len(state.improved_content.readme_edits) \in 3..5

C6_StateAppendOnly ==
    /\ [](\A w1, w2 \in writeLog : w1[2] = w2[2] => w1 = w2)
    /\ [][\A f \in DOMAIN state : f \in DOMAIN state' /\ state'[f] = state[f]]_vars

C6_Witness ==
    /\ DOMAIN state = Fields
    /\ Cardinality(writeLog) = Cardinality(Fields)

\* C7: the stages start in the order analyze_repo, recommend_metadata,
\* improve_content; when one has started, every earlier one has completed
\* and every field it reads is in the state; at most one is running.
C7_StagesInOrder ==
    /\ Cardinality(running) <= 1
    /\ Len(started) <= Len(StageOrder)
    /\ \A i \in 1..Len(started) :
        /\ i <= Len(StageOrder) => started[i] = StageOrder[i]
        /\ \A j \in 1..(i - 1) : j <= Len(StageOrder) => StageOrder[j] \in completed
        /\ Reads(started[i]) \subseteq DOMAIN state

C7_Witness ==
    /\ running = { "improve_content" }
    /\ started = StageOrder

\* C8: a file of the allow-list that exists and cannot be read makes
\* process_repo fail: it never returns a chunk list after such an error.
C8_LoadErrorSurfaced ==
    pc = "node1_after" => loadFailed = {}

\* C9: every chunk the splitter emits for a document is non-empty and no
\* longer than chunk_size.
C9_ChunkLengthBounded ==
    pc = "split_done" =>
        \A i \in 1..Len(chunks) : Len(chunks[i]) > 0 /\ Len(chunks[i]) <= ChunkSize

C9_Witness ==
    /\ pc = "split_done"
    /\ Len(docs[1]) > ChunkSize
    /\ Len(chunks) >= 2
    /\ \E i \in 1..Len(chunks) : Len(chunks[i]) = ChunkSize

\* C10: when process_repo returns no chunks the node fails before
\* create_retriever is called, and a state with a retriever has a
\* non-empty chunks field.
C10_NoIndexOverZeroChunks ==
    /\ InSeq("create_retriever", calls) => chunks # << >>
    /\ "retriever" \in DOMAIN state =>
           "chunks" \in DOMAIN state /\ state.chunks # << >>
    /\ (pc \in {"raised", "done"} /\ InSeq("split_documents", calls) /\ chunks = << >>)
           => CauseRecorded("no_chunks") /\ exc = "ValueError"

C10_Witness ==
    /\ pc = "done"
    /\ InSeq("split_documents", calls)
    /\ chunks = << >>
    /\ result = "workflow_failed"
====
